---------------------------- MODULE Spec2Model ----------------------------
(***************************************************************************)
(* Model of saadirfan/blocktail-tokenization-analysis.                     *)
(*                                                                         *)
(* Two programs share the results/ directory:                              *)
(*   tokenize_tests.py     runs the tokenizers over the sample corpus and  *)
(*                         writes results/<tokenizer>_results.json         *)
(*   analysis-compiler.py  reads those files, builds the markdown summary  *)
(*                         and splices it into README.md                   *)
(*                                                                         *)
(* Text is a sequence of one-character strings, so that substring search,  *)
(* str.count and str.split are computed rather than assumed.               *)
(***************************************************************************)
EXTENDS Integers, Sequences, FiniteSets, TLC

VARIABLES
    pc,                \* position of the running program
    stdout,            \* what the program has printed, in order
    exit_status,       \* -1 while running, then the process's exit status
    args,              \* sys.argv[1:]
    dirs,              \* the directories that exist
    cases_file,        \* data/test_cases.json
    results_dir,       \* results/<tokenizer>_results.json, by tokenizer name
    before,            \* the files as they were when the program started
    raises,            \* the texts on which the tokenizer libraries raise
    test_cases,        \* main: the loaded corpus
    k,                 \* main: position of the batch loop in tester.tokenizers
    success,           \* main: names process_tokenizer returned True for
    failed,            \* main: names process_tokenizer returned False for
    tokenizer_name,    \* process_tokenizer: its tokenizer_name argument
    tokenizer,         \* process_tokenizer: the loaded tokenizer (its type)
    results,           \* process_tokenizer: the document being built
    i,                 \* process_tokenizer: position in test_cases.items()
    j,                 \* process_tokenizer: position in examples
    tokenizer_results, \* TokenizationAnalyzer.tokenizer_results
    order,             \* iteration order of tokenizer_results (glob order)
    all_savings,       \* generate_summary: its all_savings list
    summary,           \* generate_summary's result
    summary_file,      \* tokenization_summary.md
    readme             \* README.md

tokVars == <<args, dirs, cases_file, raises, test_cases, k, success, failed,
             tokenizer_name, tokenizer, results, i, j, exit_status>>
repVars == <<tokenizer_results, order, all_savings, summary, summary_file, readme>>
vars == <<pc, stdout, results_dir, before, tokVars, repVars>>

---------------------------------------------------------------------------
(* Bounds of the model.                                                    *)

\* Longest examples list of a convention in the modelled corpora.
MaxExamples == 2

---------------------------------------------------------------------------
(* Generic helpers.                                                        *)

Range(s) == {s[n] : n \in 1..Len(s)}

SeqsUpTo(S, n) == UNION {[1..m -> S] : m \in 0..n}

RECURSIVE Concat(_)
Concat(ss) == IF ss = <<>> THEN <<>> ELSE Head(ss) \o Concat(Tail(ss))

\* The sequences over S without repetition.
RECURSIVE DistinctSeqs(_)
DistinctSeqs(S) ==
    {<<>>} \cup UNION {{<<x>> \o r : r \in DistinctSeqs(S \ {x})} : x \in S}

---------------------------------------------------------------------------
(* tokenize_tests.py                                                       *)

\* TokenizerTest.tokenizers, in dictionary order.
Tokenizers ==
    << [id |-> "gpt4",    name |-> "gpt-4",                       type |-> "tiktoken"],
       [id |-> "gpt35",   name |-> "gpt-3.5-turbo",               type |-> "tiktoken"],
       [id |-> "llama3",  name |-> "meta-llama/Meta-Llama-3-70B", type |-> "transformers"],
       [id |-> "mistral", name |-> "mistralai/Mistral-7B-v0.3",   type |-> "transformers"],
       [id |-> "bert",    name |-> "bert-base-uncased",           type |-> "transformers"],
       [id |-> "roberta", name |-> "roberta-base",                type |-> "transformers"],
       [id |-> "t5",      name |-> "t5-base",                     type |-> "transformers"],
       [id |-> "gpt2",    name |-> "gpt2",                        type |-> "transformers"],
       [id |-> "spiece",  name |-> "spiece.model",                type |-> "sentencepiece"] >>

TokenizerIds == {Tokenizers[n].id : n \in 1..Len(Tokenizers)}

\* self.tokenizers[tokenizer_id]
Config(id) == Tokenizers[CHOOSE n \in 1..Len(Tokenizers) : Tokenizers[n].id = id]

\* A slip in lines 141-152: one example short in the second convention.
sample_cases_short ==
    << [label |-> "traditional", examples |->
         << <<"p","r","o","d","u","c","t","-","c","a","r","d"," ","f","e","a","t","u","r","e","d">>,
            <<"s","i","d","e","b","a","r","-","n","a","v","i","g","a","t","i","o","n"," ","a","c","t","i","v","e">>,
            <<"h","e","a","d","e","r","-","l","o","g","o"," ","d","a","r","k","-","t","h","e","m","e">> >>],
       [label |-> "blocktail", examples |->
         << <<"p","r","o","d","u","c","t","_","c","a","r","d"," ","-","-","f","e","a","t","u","r","e","d">>,
            <<"s","i","d","e","b","a","r","_","n","a","v","i","g","a","t","i","o","n"," ","-","-","a","c","t","i","v","e">> >>] >>

\* sample_cases of main, written when data/test_cases.json does not exist.
sample_cases ==
    << [label |-> "traditional", examples |->
         << <<"p","r","o","d","u","c","t","-","c","a","r","d"," ","f","e","a","t","u","r","e","d">>,
            <<"s","i","d","e","b","a","r","-","n","a","v","i","g","a","t","i","o","n"," ","a","c","t","i","v","e">>,
            <<"h","e","a","d","e","r","-","l","o","g","o"," ","d","a","r","k","-","t","h","e","m","e">> >>],
       [label |-> "blocktail", examples |->
         << <<"p","r","o","d","u","c","t","_","c","a","r","d"," ","-","-","f","e","a","t","u","r","e","d">>,
            <<"s","i","d","e","b","a","r","_","n","a","v","i","g","a","t","i","o","n"," ","-","-","a","c","t","i","v","e">>,
            <<"h","e","a","d","e","r","_","l","o","g","o"," ","-","-","d","a","r","k","_","t","h","e","m","e">> >>] >>

\* The characters at which the modelled tokenizer libraries cut a text.
Separators == {" ", "-", "_"}

\* The external libraries' split of a text: the maximal runs of other
\* characters, and each separator on its own.
RECURSIVE PiecesFrom(_, _, _)
PiecesFrom(text, p, acc) ==
    LET flush == IF acc = <<>> THEN <<>> ELSE <<acc>>
    IN  IF p > Len(text) THEN flush
        ELSE IF text[p] \in Separators
             THEN flush \o <<<<text[p]>>>> \o PiecesFrom(text, p + 1, <<>>)
             ELSE PiecesFrom(text, p + 1, Append(acc, text[p]))

\* encode_as_pieces / encode / tokenize of the loaded tokenizer: a list of
\* pieces for sentencepiece and transformers, a list of integer ids for
\* tiktoken.
Encode(type, text) ==
    LET pieces == PiecesFrom(text, 1, <<>>)
    IN  IF type = "tiktoken"
        THEN [n \in 1..Len(pieces) |-> Len(pieces[n])]
        ELSE pieces

\* A slip in line 88: the length of the text for the number of tokens.
tokenize_text_length(text, tokenizer_id, tok) ==
    LET tokens == Encode(Config(tokenizer_id).type, text)
    IN  [input |-> text, tokens |-> tokens, num_tokens |-> Len(text)]

\* TokenizerTest.tokenize, when the library does not raise.
tokenize(text, tokenizer_id, tok) ==
    LET tokens == Encode(Config(tokenizer_id).type, text)
    IN  [input |-> text, tokens |-> tokens, num_tokens |-> Len(tokens)]

\* print(...)
Msg(m, n, t) == [msg |-> m, name |-> n, text |-> t]

\* A file of the results directory that no run of this program writes.
StaleDoc == [l \in {"stale"} |-> <<>>]
EmptyDoc == [l \in {} |-> <<>>]
NoFiles  == [t \in {} |-> EmptyDoc]

Missing   == [state |-> "missing", data |-> <<>>]
Garbage   == [state |-> "garbage", data |-> <<>>]
Json(c)   == [state |-> "json", data |-> c]

NoReadme  == [exists |-> FALSE, text |-> <<>>]
NoSummary == [rows |-> <<>>, impact |-> <<>>, markers |-> <<>>]

\* The variables of analysis-compiler.py, which tokenize_tests.py never
\* touches.
ReportIdle ==
    /\ tokenizer_results = NoFiles
    /\ order = <<>>
    /\ all_savings = <<>>
    /\ summary = NoSummary
    /\ summary_file = <<>>
    /\ readme = NoReadme

(* The inputs of the modelled runs. *)

Texts == { <<"a","b","-","-","c">>, <<"a","b"," ","c">> }

Labels == {"Traditional", "Blocktail"}

Corpora ==
    UNION { { [n \in 1..Len(ls) |-> [label |-> ls[n], examples |-> ex[n]]]
              : ex \in [1..Len(ls) -> SeqsUpTo(Texts, MaxExamples)] }
            : ls \in DistinctSeqs(Labels) }

\* The corpora of the modelled batch runs.
BatchCorpora ==
    { c \in Corpora : /\ Len(c) = Cardinality(Labels)
                      /\ c[1].label = "Traditional"
                      /\ \A n \in 1..Len(c) : Len(c[n].examples) = 1 }

Args == { <<>>, <<"all">>, <<"gpt4">>, <<"bert">>, <<"spiece">>, <<"nope">> }

CasesFiles(a) ==
    {Missing, Garbage}
        \cup {Json(c) : c \in (IF a = <<"all">> THEN BatchCorpora ELSE Corpora)}

RaiseSets(a) ==
    IF a = <<"all">>
    THEN { {}, {<<"a","b","-","-","c">>} }
    ELSE (SUBSET Texts) \cup { {sample_cases[1].examples[1]} }

Init ==
    \E a \in Args, old \in BOOLEAN :
      \E cf \in CasesFiles(a), rs \in RaiseSets(a) :
        /\ args = a
        /\ cases_file = cf
        /\ raises = rs
        /\ results_dir = IF old THEN [t \in TokenizerIds |-> StaleDoc] ELSE NoFiles
        /\ dirs = (IF old THEN {"results"} ELSE {})
                    \cup (IF cf = Missing THEN {} ELSE {"data"})
        /\ before = [cases |-> cf,
                     results |-> IF old THEN [t \in TokenizerIds |-> StaleDoc] ELSE NoFiles,
                     readme |-> NoReadme]
        /\ pc = "main"
        /\ stdout = <<>>
        /\ exit_status = -1
        /\ test_cases = <<>>
        /\ k = 1
        /\ success = <<>>
        /\ failed = <<>>
        /\ tokenizer_name = ""
        /\ tokenizer = "none"
        /\ results = EmptyDoc
        /\ i = 1
        /\ j = 1
        /\ ReportIdle

\* main, lines 123-129: the wrong number of arguments.
Usage ==
    /\ pc = "main"
    /\ Len(args) # 1
    /\ stdout' = stdout \o <<Msg("Usage", "", <<>>)>>
                   \o [n \in 1..Len(Tokenizers) |-> Msg("available", Tokenizers[n].id, <<>>)]
    /\ exit_status' = 1
    /\ pc' = "done"
    /\ UNCHANGED <<results_dir, before, args, dirs, cases_file, raises, test_cases, k,
                   success, failed, tokenizer_name, tokenizer, results, i, j, repVars>>

\* main, lines 131-155: the directories, and the sample corpus when
\* data/test_cases.json does not exist.
Setup ==
    /\ pc = "main"
    /\ Len(args) = 1
    /\ IF cases_file.state = "missing"
       THEN /\ dirs' = dirs \cup {"results", "data"}
            /\ cases_file' = Json(sample_cases)
            /\ stdout' = Append(stdout, Msg("Created sample test cases", "", <<>>))
       ELSE /\ dirs' = dirs \cup {"results"}
            /\ UNCHANGED <<cases_file, stdout>>
    /\ pc' = "load_cases"
    /\ UNCHANGED <<results_dir, before, args, raises, test_cases, k, success, failed,
                   tokenizer_name, tokenizer, results, i, j, exit_status, repVars>>

\* main, lines 157-167: json.load of the corpus, then the dispatch on the
\* argument.
LoadCases ==
    /\ pc = "load_cases"
    /\ IF cases_file.state = "json"
       THEN /\ test_cases' = cases_file.data
            /\ IF args[1] = "all"
               THEN /\ pc' = "batch"
                    /\ UNCHANGED tokenizer_name
               ELSE /\ pc' = "get_tokenizer"
                    /\ tokenizer_name' = args[1]
            /\ UNCHANGED <<stdout, exit_status>>
       ELSE /\ stdout' = Append(stdout, Msg("Error loading test cases", "", <<>>))
            /\ exit_status' = 1
            /\ pc' = "done"
            /\ UNCHANGED <<test_cases, tokenizer_name>>
    /\ UNCHANGED <<results_dir, before, args, dirs, cases_file, raises, k, success, failed,
                   tokenizer, results, i, j, repVars>>

\* main, lines 170-178: the next tokenizer of the batch, or the summary.
Batch ==
    /\ pc = "batch"
    /\ IF k <= Len(Tokenizers)
       THEN /\ stdout' = Append(stdout, Msg("Processing tokenizer", Tokenizers[k].id, <<>>))
            /\ tokenizer_name' = Tokenizers[k].id
            /\ pc' = "get_tokenizer"
            /\ UNCHANGED exit_status
       ELSE /\ stdout' = stdout \o << Msg("Successfully processed", "", success),
                                     Msg("Failed", "", failed) >>
            /\ exit_status' = 0
            /\ pc' = "done"
            /\ UNCHANGED tokenizer_name
    /\ UNCHANGED <<results_dir, before, args, dirs, cases_file, raises, test_cases, k,
                   success, failed, tokenizer, results, i, j, repVars>>

\* A slip in lines 172-175: a failed tokenizer ends the batch.
Return_stop_on_failure(ok) ==
    IF args[1] = "all"
    THEN /\ success' = IF ok THEN Append(success, tokenizer_name) ELSE success
         /\ failed' = IF ok THEN failed ELSE Append(failed, tokenizer_name)
         /\ k' = IF ok THEN k + 1 ELSE Len(Tokenizers) + 1
         /\ pc' = "batch"
         /\ UNCHANGED exit_status
    ELSE /\ exit_status' = 0
         /\ pc' = "done"
         /\ UNCHANGED <<success, failed, k>>

\* The return of process_tokenizer to main: lines 172-175 in a batch, line
\* 180 otherwise.
Return(ok) ==
    IF args[1] = "all"
    THEN /\ success' = IF ok THEN Append(success, tokenizer_name) ELSE success
         /\ failed' = IF ok THEN failed ELSE Append(failed, tokenizer_name)
         /\ k' = k + 1
         /\ pc' = "batch"
         /\ UNCHANGED exit_status
    ELSE /\ exit_status' = 0
         /\ pc' = "done"
         /\ UNCHANGED <<success, failed, k>>

\* process_tokenizer, lines 93-97 (and 113-115 when get_tokenizer raises):
\* an unknown name always raises, a known one when its model cannot be
\* loaded.
GetTokenizer ==
    /\ pc = "get_tokenizer"
    /\ \E loaded \in BOOLEAN :
         IF loaded /\ tokenizer_name \in TokenizerIds
         THEN /\ tokenizer' = Config(tokenizer_name).type
              /\ results' = EmptyDoc
              /\ i' = 1
              /\ j' = 1
              /\ pc' = "for_convention"
              /\ UNCHANGED <<stdout, success, failed, k, exit_status>>
         ELSE /\ stdout' = Append(stdout, Msg("Error initializing or processing tokenizer",
                                              tokenizer_name, <<>>))
              /\ Return(FALSE)
              /\ UNCHANGED <<tokenizer, results, i, j>>
    /\ UNCHANGED <<results_dir, before, args, dirs, cases_file, raises, test_cases,
                   tokenizer_name, repVars>>

\* process_tokenizer, lines 98-99: the next convention of the corpus.
ForConvention ==
    /\ pc = "for_convention"
    /\ IF i <= Len(test_cases)
       THEN /\ results' = (test_cases[i].label :> <<>>) @@ results
            /\ j' = 1
            /\ pc' = "for_example"
       ELSE /\ pc' = "write"
            /\ UNCHANGED <<results, j>>
    /\ UNCHANGED <<stdout, results_dir, before, args, dirs, cases_file, raises, test_cases,
                   k, success, failed, tokenizer_name, tokenizer, i, exit_status, repVars>>

\* A slip in line 103: the record is put in front of the list.
AppendResult_front(res, label, result) ==
    [res EXCEPT ![label] = <<result>> \o @]

\* results[naming_convention].append(result), line 103
AppendResult(res, label, result) ==
    [res EXCEPT ![label] = Append(@, result)]

\* process_tokenizer, lines 100-106: one example, tokenized or skipped.
ForExample ==
    /\ pc = "for_example"
    /\ IF j <= Len(test_cases[i].examples)
       THEN LET example == test_cases[i].examples[j]
            IN  /\ IF example \in raises
                   THEN /\ stdout' = Append(stdout, Msg("Error processing example",
                                                        tokenizer_name, example))
                        /\ UNCHANGED results
                   ELSE /\ results' = AppendResult(results, test_cases[i].label,
                                           tokenize(example, tokenizer_name, tokenizer))
                        /\ UNCHANGED stdout
                /\ j' = j + 1
                /\ UNCHANGED <<i, pc>>
       ELSE /\ i' = i + 1
            /\ pc' = "for_convention"
            /\ UNCHANGED <<stdout, results, j>>
    /\ UNCHANGED <<results_dir, before, args, dirs, cases_file, raises, test_cases, k,
                   success, failed, tokenizer_name, tokenizer, exit_status, repVars>>

\* json.dump(results, f), lines 108-109
Dump(dir, name, doc) == (name :> doc) @@ dir

\* process_tokenizer, lines 108-111: the result file, and the return.
WriteResults ==
    /\ pc = "write"
    /\ results_dir' = Dump(results_dir, tokenizer_name, results)
    /\ stdout' = Append(stdout, Msg("Results saved", tokenizer_name, <<>>))
    /\ Return(TRUE)
    /\ UNCHANGED <<before, args, dirs, cases_file, raises, test_cases,
                   tokenizer_name, tokenizer, results, i, j, repVars>>

Next ==
    \/ Usage
    \/ Setup
    \/ LoadCases
    \/ Batch
    \/ GetTokenizer
    \/ ForConvention
    \/ ForExample
    \/ WriteResults

Spec == Init /\ [][Next]_vars

---------------------------------------------------------------------------
(* analysis-compiler.py                                                    *)

(* Numbers.  A float is modelled by the exact rational <<numerator,        *)
(* denominator>> it stands for.  The modelled result files hold at most    *)
(* two records per convention, so every average is a multiple of 1/2 and   *)
(* the sums and means formed from them are exact in binary floating point  *)
(* too; the percentages are not, but none of them lies at a rounding tie,  *)
(* so the formatted values are those of the program.                       *)

RECURSIVE Gcd(_, _)
Gcd(a, b) == IF b = 0 THEN a ELSE Gcd(b, a % b)

Abs(x) == IF x < 0 THEN -x ELSE x

Norm(q) ==
    LET g == Gcd(Abs(q[1]), q[2])
    IN  <<q[1] \div g, q[2] \div g>>

Zero == <<0, 1>>

RatAdd(a, b) == Norm(<<a[1] * b[2] + b[1] * a[2], a[2] * b[2]>>)
RatSub(a, b) == Norm(<<a[1] * b[2] - b[1] * a[2], a[2] * b[2]>>)
RatMul(a, c) == Norm(<<a[1] * c, a[2]>>)
RatSquare(a) == <<a[1] * a[1], a[2] * a[2]>>

RECURSIVE Sum(_)
Sum(xs) == IF xs = <<>> THEN 0 ELSE Head(xs) + Sum(Tail(xs))

RECURSIVE RatSum(_)
RatSum(qs) == IF qs = <<>> THEN Zero ELSE RatAdd(Head(qs), RatSum(Tail(qs)))

\* np.mean of a non-empty list of integers, and of floats
Mean(xs) == Norm(<<Sum(xs), Len(xs)>>)
RatMean(qs) == LET t == RatSum(qs) IN Norm(<<t[1], t[2] * Len(qs)>>)

\* np.std of a non-empty list of floats, squared
RatVariance(qs) ==
    LET m == RatMean(qs)
    IN  RatMean([n \in 1..Len(qs) |-> RatSquare(RatSub(qs[n], m))])

\* f"{x:.1f}" and f"{x:.0f}": x * scale rounded to the nearest integer, a tie
\* to the even one.
Round(q, scale) ==
    LET n == q[1] * scale
        f == n \div q[2]
        r == n - f * q[2]
    IN  IF 2 * r < q[2] THEN f
        ELSE IF 2 * r > q[2] THEN f + 1
        ELSE IF f % 2 = 0 THEN f ELSE f + 1

\* f"{np.sqrt(v):.1f}" in tenths: the largest t with (t - 1/2)^2 <= 100 v.
RoundSqrt(v) ==
    LET fits(t) == (2 * t - 1) * (2 * t - 1) * v[2] <= 400 * v[1]
        RECURSIVE up(_)
        up(t) == IF fits(t + 1) THEN up(t + 1) ELSE t
    IN  up(0)

\* A formatted cell of the report: a number, in tenths, or "N/A".
Number(tenths) == [text |-> "number", tenths |-> tenths]
NA == [text |-> "N/A", tenths |-> 0]

\* A value that may be None.
None == [none |-> TRUE, val |-> Zero]
Some(q) == [none |-> FALSE, val |-> q]
\* Python's truth value of such a value: None and 0.0 are false.
Truthy(x) == ~x.none /\ x.val[1] # 0

\* data.get(label, [])
Get(data, label) == IF label \in DOMAIN data THEN data[label] ELSE <<>>

NumTokens(records) == [n \in 1..Len(records) |-> records[n].num_tokens]

\* A slip in str.count: overlapping occurrences counted too.
RECURSIVE Count_overlapping(_, _, _)
Count_overlapping(str, sub, p) ==
    IF p + Len(sub) - 1 > Len(str) THEN 0
    ELSE IF SubSeq(str, p, p + Len(sub) - 1) = sub
         THEN 1 + Count_overlapping(str, sub, p + 1)
         ELSE Count_overlapping(str, sub, p + 1)

\* str.count(sub), from position p: the occurrences that do not overlap,
\* found from the left.
RECURSIVE Count(_, _, _)
Count(str, sub, p) ==
    IF p + Len(sub) - 1 > Len(str) THEN 0
    ELSE IF SubSeq(str, p, p + Len(sub) - 1) = sub
         THEN 1 + Count(str, sub, p + Len(sub))
         ELSE Count(str, sub, p + 1)

\* analyze_methodology, line 67
Markers(input_str) ==
    Count(input_str, <<"-", "-">>, 1) + Count(input_str, <<" ", "-">>, 1)

NoComplexity == [m \in {} |-> Zero]

\* TokenizationAnalyzer.analyze_methodology
analyze_methodology(data, methodology) ==
    IF methodology \notin DOMAIN data
    THEN [avg_tokens |-> Zero, token_range |-> <<0, 0>>, by_complexity |-> NoComplexity]
    ELSE LET entries == data[methodology]
             tokens == NumTokens(entries)
             sizes(m) == NumTokens(SelectSeq(entries, LAMBDA e : Markers(e.input) = m))
         IN  [avg_tokens |-> IF tokens # <<>> THEN Mean(tokens) ELSE Zero,
              token_range |-> IF tokens # <<>>
                              THEN << CHOOSE x \in Range(tokens) : \A y \in Range(tokens) : x <= y,
                                      CHOOSE x \in Range(tokens) : \A y \in Range(tokens) : x >= y >>
                              ELSE <<0, 0>>,
              by_complexity |-> [m \in {Markers(e.input) : e \in Range(entries)}
                                    |-> Mean(sizes(m))]]

\* (a - b) / a * 100
PercentReduction(a, b) == Norm(<<(a[1] * b[2] - b[1] * a[2]) * 100, a[1] * b[2]>>)

\* A slip in line 91: a tokenizer without BEM data is skipped as well.
ComparisonRow_needs_bem(name, data) ==
    LET blocktail_data == Get(data, "Blocktail")
        trad_data == Get(data, "Traditional")
        bem_data == Get(data, "BEM")
    IN  IF blocktail_data = <<>> \/ trad_data = <<>> \/ bem_data = <<>> THEN <<>>
        ELSE LET blocktail_avg == Mean(NumTokens(blocktail_data))
                 trad_avg == Mean(NumTokens(trad_data))
                 bem_avg == Some(Mean(NumTokens(bem_data)))
                 vs_trad == IF trad_avg[1] > 0
                            THEN PercentReduction(trad_avg, blocktail_avg) ELSE Zero
                 vs_bem == IF Truthy(bem_avg)
                           THEN Some(PercentReduction(bem_avg.val, blocktail_avg)) ELSE None
             IN  << [Tokenizer |-> name,
                     BlocktailAvg |-> Number(Round(blocktail_avg, 10)),
                     TraditionalAvg |-> Number(Round(trad_avg, 10)),
                     BEMAvg |-> IF Truthy(bem_avg) THEN Number(Round(bem_avg.val, 10)) ELSE NA,
                     vsTrad |-> Number(Round(vs_trad, 10)),
                     vsBEM |-> IF Truthy(vs_bem) THEN Number(Round(vs_bem.val, 10)) ELSE NA] >>

\* A slip in lines 91-93: no tokenizer is skipped, a convention without
\* records counts as an average of zero.
ComparisonRow_no_skip(name, data) ==
    LET avg(records) == IF records = <<>> THEN Zero ELSE Mean(NumTokens(records))
        blocktail_avg == avg(Get(data, "Blocktail"))
        trad_avg == avg(Get(data, "Traditional"))
        bem_data == Get(data, "BEM")
        bem_avg == IF bem_data # <<>> THEN Some(Mean(NumTokens(bem_data))) ELSE None
        vs_trad == IF trad_avg[1] > 0
                   THEN PercentReduction(trad_avg, blocktail_avg) ELSE Zero
        vs_bem == IF Truthy(bem_avg)
                  THEN Some(PercentReduction(bem_avg.val, blocktail_avg)) ELSE None
    IN  << [Tokenizer |-> name,
            BlocktailAvg |-> Number(Round(blocktail_avg, 10)),
            TraditionalAvg |-> Number(Round(trad_avg, 10)),
            BEMAvg |-> IF Truthy(bem_avg) THEN Number(Round(bem_avg.val, 10)) ELSE NA,
            vsTrad |-> Number(Round(vs_trad, 10)),
            vsBEM |-> IF Truthy(vs_bem) THEN Number(Round(vs_bem.val, 10)) ELSE NA] >>

\* generate_summary, lines 87-111: the comparison row of one tokenizer, or
\* nothing when it has no Blocktail or no Traditional records.
ComparisonRow(name, data) ==
    LET blocktail_data == Get(data, "Blocktail")
        trad_data == Get(data, "Traditional")
        bem_data == Get(data, "BEM")
    IN  IF blocktail_data = <<>> \/ trad_data = <<>> THEN <<>>
        ELSE LET blocktail_avg == Mean(NumTokens(blocktail_data))
                 trad_avg == Mean(NumTokens(trad_data))
                 bem_avg == IF bem_data # <<>> THEN Some(Mean(NumTokens(bem_data))) ELSE None
                 vs_trad == IF trad_avg[1] > 0
                            THEN PercentReduction(trad_avg, blocktail_avg) ELSE Zero
                 vs_bem == IF Truthy(bem_avg)
                           THEN Some(PercentReduction(bem_avg.val, blocktail_avg)) ELSE None
             IN  << [Tokenizer |-> name,
                     BlocktailAvg |-> Number(Round(blocktail_avg, 10)),
                     TraditionalAvg |-> Number(Round(trad_avg, 10)),
                     BEMAvg |-> IF Truthy(bem_avg) THEN Number(Round(bem_avg.val, 10)) ELSE NA,
                     vsTrad |-> Number(Round(vs_trad, 10)),
                     vsBEM |-> IF Truthy(vs_bem) THEN Number(Round(vs_bem.val, 10)) ELSE NA] >>

\* generate_summary, lines 86-111
ComparisonRows(trs, ord) ==
    Concat([n \in 1..Len(ord) |-> ComparisonRow(ord[n], trs[ord[n]])])

\* A slip in lines 130-133: only the Traditional baseline is counted.
Savings_traditional_only(data) ==
    LET blocktail_info == analyze_methodology(data, "Blocktail")
        trad_info == analyze_methodology(data, "Traditional")
    IN  IF trad_info.avg_tokens[1] > 0
        THEN <<RatSub(trad_info.avg_tokens, blocktail_info.avg_tokens)>> ELSE <<>>

\* generate_summary, lines 126-133: what one tokenizer adds to all_savings.
Savings(data) ==
    LET blocktail_info == analyze_methodology(data, "Blocktail")
        trad_info == analyze_methodology(data, "Traditional")
        bem_info == IF "BEM" \in DOMAIN data
                    THEN Some(analyze_methodology(data, "BEM").avg_tokens) ELSE None
    IN  (IF trad_info.avg_tokens[1] > 0
         THEN <<RatSub(trad_info.avg_tokens, blocktail_info.avg_tokens)>> ELSE <<>>)
        \o
        (IF ~bem_info.none /\ bem_info.val[1] > 0
         THEN <<RatSub(bem_info.val, blocktail_info.avg_tokens)>> ELSE <<>>)

\* generate_summary, lines 124-133
AllSavings(trs, ord) == Concat([n \in 1..Len(ord) |-> Savings(trs[ord[n]])])

\* TokenizationAnalyzer("results", iteration_cycles=5)
iteration_cycles == 5
\* "In a typical page with 20 components"
PageComponents == 20

Line(what, value) == [line |-> what, value |-> value]

\* generate_summary, lines 135-147
PracticalImpact(savings) ==
    IF savings # <<>>
    THEN LET avg_savings == RatMean(savings)
         IN  << Line("Average token reduction per component", Round(avg_savings, 10)),
                Line("In a typical page with 20 components",
                     Round(RatMul(avg_savings, PageComponents), 1)) >>
             \o (IF iteration_cycles > 1
                 THEN << Line("Over iterative refinements",
                              Round(RatMul(avg_savings, PageComponents * iteration_cycles), 1)) >>
                 ELSE <<>>)
    ELSE << Line("Not enough data to compute practical impact", 0) >>

\* The integers of S in increasing order: sorted(...)
RECURSIVE Sorted(_)
Sorted(S) ==
    IF S = {} THEN <<>>
    ELSE LET m == CHOOSE x \in S : \A y \in S : x <= y
         IN  <<m>> \o Sorted(S \ {m})

\* generate_summary, lines 150-164: per marker count, the mean and standard
\* deviation over the tokenizers of their Blocktail bucket averages.
MarkerComplexity(trs, ord) ==
    LET info(n) == analyze_methodology(trs[ord[n]], "Blocktail").by_complexity
        keys == UNION {DOMAIN info(n) : n \in 1..Len(ord)}
        values(m) ==
            Concat([n \in 1..Len(ord) |->
                      IF m \in DOMAIN info(n) THEN <<info(n)[m]>> ELSE <<>>])
        sorted == Sorted(keys)
    IN  [n \in 1..Len(sorted) |->
            [markers |-> sorted[n],
             mean |-> Round(RatMean(values(sorted[n])), 10),
             std |-> RoundSqrt(RatVariance(values(sorted[n])))]]

\* TokenizationAnalyzer.generate_summary
generate_summary(trs, ord) ==
    [rows |-> ComparisonRows(trs, ord),
     impact |-> PracticalImpact(AllSavings(trs, ord)),
     markers |-> MarkerComplexity(trs, ord)]

\* The text of the summary: one element per table row and per line.
SummaryText(sm) ==
    <<"# Tokenization Analysis Summary", "## Cross Comparison">>
        \o (IF sm.rows # <<>>
            THEN [n \in 1..Len(sm.rows) |-> ToString(sm.rows[n])]
            ELSE <<"*No valid data found.*">>)
        \o <<"## Practical Impact">>
        \o [n \in 1..Len(sm.impact) |-> ToString(sm.impact[n])]
        \o <<"### Token Usage by Marker Complexity">>
        \o (IF sm.markers # <<>>
            THEN [n \in 1..Len(sm.markers) |-> ToString(sm.markers[n])]
            ELSE <<"- No marker complexity data.">>)
        \o <<"*Note:*">>

START == <<"<", "!", "-", "-", " ", "R", "E", "S", "U", "L", "T", "S", " ", "-", "-", ">">>
END == <<"<", "!", "-", "-", " ", "E", "N", "D", "_", "R", "E", "S", "U", "L", "T", "S",
         " ", "-", "-", ">">>
NL == <<"\n">>

\* str.find(sub) + 1: where sub first occurs in str, 0 when it does not.
RECURSIVE FindFrom(_, _, _)
FindFrom(str, sub, p) ==
    IF p + Len(sub) - 1 > Len(str) THEN 0
    ELSE IF SubSeq(str, p, p + Len(sub) - 1) = sub THEN p
         ELSE FindFrom(str, sub, p + 1)

\* sub in str
Contains(str, sub) == FindFrom(str, sub, 1) # 0

\* str.rfind(sub) + 1
RECURSIVE FindLastFrom(_, _, _)
FindLastFrom(str, sub, p) ==
    IF p < 1 THEN 0
    ELSE IF SubSeq(str, p, p + Len(sub) - 1) = sub THEN p
         ELSE FindLastFrom(str, sub, p - 1)

\* str.split(sub, 1) of a text that contains sub
SplitOnce(str, sub) ==
    LET p == FindFrom(str, sub, 1)
    IN  << SubSeq(str, 1, p - 1), SubSeq(str, p + Len(sub), Len(str)) >>

\* A slip in line 204: the text is cut at the last end marker.
Splice_at_last_end(readme_content, text) ==
    IF Contains(readme_content, START)
    THEN LET readme_parts == SplitOnce(readme_content, START)
             rest == readme_parts[2]
             p == FindLastFrom(rest, END, Len(rest) - Len(END) + 1)
         IN  readme_parts[1] \o START \o NL \o text
                \o (IF Contains(rest, END)
                    THEN NL \o END \o SubSeq(rest, p + Len(END), Len(rest))
                    ELSE <<>>)
    ELSE readme_content \o NL \o START \o NL \o text \o NL \o END

\* main, lines 200-206: the new content of README.md
Splice(readme_content, text) ==
    IF Contains(readme_content, START)
    THEN LET readme_parts == SplitOnce(readme_content, START)
         IN  readme_parts[1] \o START \o NL \o text
                \o (IF Contains(readme_parts[2], END)
                    THEN NL \o END \o SplitOnce(readme_parts[2], END)[2]
                    ELSE <<>>)
    ELSE readme_content \o NL \o START \o NL \o text \o NL \o END

\* The variables of tokenize_tests.py, which analysis-compiler.py never
\* touches.
TokenizeIdle ==
    /\ args = <<>>
    /\ dirs = {"results"}
    /\ cases_file = Missing
    /\ raises = {}
    /\ test_cases = <<>>
    /\ k = 1
    /\ success = <<>>
    /\ failed = <<>>
    /\ tokenizer_name = ""
    /\ tokenizer = "none"
    /\ results = EmptyDoc
    /\ i = 1
    /\ j = 1
    /\ exit_status = -1

\* The start of analysis-compiler.py over the result files `files` and the
\* README.md `rd`.
ReportStart(files, rd) ==
    /\ results_dir = files
    /\ readme = rd
    /\ before = [cases |-> Missing, results |-> files, readme |-> rd]
    /\ pc = "main"
    /\ stdout = <<>>
    /\ tokenizer_results = NoFiles
    /\ order = <<>>
    /\ all_savings = <<>>
    /\ summary = NoSummary
    /\ summary_file = <<>>
    /\ TokenizeIdle

\* TokenizationAnalyzer.__init__ and load_results: every result file, in the
\* order glob yields them.
LoadResults ==
    /\ pc = "main"
    /\ tokenizer_results' = results_dir
    /\ \E ord \in DistinctSeqs(DOMAIN results_dir) :
          /\ Len(ord) = Cardinality(DOMAIN results_dir)
          /\ order' = ord
    /\ pc' = "loaded"
    /\ UNCHANGED <<stdout, results_dir, before, tokVars, all_savings, summary,
                   summary_file, readme>>

\* main, line 187: generate_summary
GenerateSummary ==
    /\ pc = "loaded"
    /\ all_savings' = AllSavings(tokenizer_results, order)
    /\ summary' = generate_summary(tokenizer_results, order)
    /\ pc' = "summarized"
    /\ UNCHANGED <<stdout, results_dir, before, tokVars, tokenizer_results, order,
                   summary_file, readme>>

\* main, lines 189-192: tokenization_summary.md
WriteSummary ==
    /\ pc = "summarized"
    /\ summary_file' = SummaryText(summary)
    /\ stdout' = Append(stdout, Msg("Summary saved", "", <<>>))
    /\ pc' = "saved"
    /\ UNCHANGED <<results_dir, before, tokVars, tokenizer_results, order, all_savings,
                   summary, readme>>

\* main, lines 194-213: README.md, when there is one
UpdateReadme ==
    /\ pc = "saved"
    /\ IF readme.exists
       THEN /\ readme' = [exists |-> TRUE, text |-> Splice(readme.text, SummaryText(summary))]
            /\ stdout' = Append(stdout, Msg("README.md updated", "", <<>>))
       ELSE /\ stdout' = Append(stdout, Msg("README.md not found", "", <<>>))
            /\ UNCHANGED readme
    /\ pc' = "done"
    /\ UNCHANGED <<results_dir, before, tokVars, tokenizer_results, order, all_savings,
                   summary, summary_file>>

NextReport ==
    \/ LoadResults
    \/ GenerateSummary
    \/ WriteSummary
    \/ UpdateReadme

(* The inputs of the modelled report runs. *)

\* Largest num_tokens of a record in the modelled result files.
MaxTok == 2

\* A record of a result file with n tokens.
Record(input, n) == [input |-> input, tokens |-> [m \in 1..n |-> 1], num_tokens |-> n]

\* The num_tokens lists of a convention: no, one or two records.
TokenLists ==
    {<<>>} \cup {<<a>> : a \in 0..MaxTok} \cup {<<a, b>> : a, b \in 0..MaxTok}

ShortTokenLists == {<<>>} \cup {<<a>> : a \in 0..MaxTok}

\* A convention of a result file: absent, or a list of records.
Absent == [present |-> FALSE, tokens |-> <<>>]
Present(ts) == [present |-> TRUE, tokens |-> ts]
Conventions(lists) == {Absent} \cup {Present(ts) : ts \in lists}

\* The result file with the given conventions, on a fixed input text.
Document(trad, blocktail, bem) ==
    LET of(l) == CASE l = "Traditional" -> trad
                   [] l = "Blocktail" -> blocktail
                   [] OTHER -> bem
    IN  [l \in {c \in {"Traditional", "Blocktail", "BEM"} : of(c).present}
            |-> [n \in 1..Len(of(l).tokens) |-> Record(<<"a">>, of(l).tokens[n])]]

Documents ==
    { Document(t, b, m) : t \in Conventions(TokenLists), b \in Conventions(TokenLists),
                          m \in Conventions(ShortTokenLists) }

\* The second result file of the modelled runs, when there is one.
SecondDocuments ==
    { Document(Present(<<2>>), Present(<<1>>), Present(<<2>>)),
      Document(Present(<<1, 2>>), Present(<<1>>), Absent),
      Document(Present(<<2>>), Absent, Present(<<1>>)) }

Plain == <<"x", "\n">>

\* A README.md that holds an earlier report between the markers.
Marked == [exists |-> TRUE, text |-> Plain \o START \o <<"o", "l", "d">> \o END \o Plain]

InitReport ==
    \E d \in Documents, rd \in {NoReadme, Marked} :
        \/ ReportStart([t \in {"gpt2"} |-> d], rd)
        \/ \E e \in SecondDocuments :
              ReportStart([t \in {"gpt2", "bert"} |-> IF t = "gpt2" THEN d ELSE e], rd)

SpecReport == InitReport /\ [][NextReport]_vars

\* Most pieces of a modelled README.md.
MaxPieces == 5

\* What the modelled README.md files are made of: text, the two markers and
\* the opening of a marker.
Pieces == { <<"x">>, NL, START, END, <<"<", "!", "-", "-", " ">> }

Readmes ==
    {NoReadme} \cup { [exists |-> TRUE, text |-> Concat(ps)] : ps \in SeqsUpTo(Pieces, MaxPieces) }

InitSplice ==
    \E rd \in Readmes :
        \/ ReportStart(NoFiles, rd)
        \/ ReportStart([t \in {"gpt2"} |-> Document(Present(<<2>>), Present(<<1>>), Absent)], rd)

SpecSplice == InitSplice /\ [][NextReport]_vars

\* Longest freely chosen input text of the modelled bucketing runs.
MaxLen == 3

a__b   == <<"a", "-", "-", "b">>
a_b_c  == <<"a", " ", "-", "b", " ", "-", "c">>

\* Input texts with markers that touch and overlap.
KeyTexts == { a__b, a_b_c, <<"a", " ", "-", "-", "b">>, <<"-", "-", "-">>, <<"-", " ", "-">> }

BucketTexts == SeqsUpTo({"a", "-", " "}, MaxLen) \cup KeyTexts

\* Result files with Blocktail records only: one record of 1 token, or that
\* and a second one of 3 tokens.
BucketDocuments ==
    { [l \in {"Blocktail"} |-> <<Record(x, 1)>>] : x \in BucketTexts }
        \cup { [l \in {"Blocktail"} |-> <<Record(x, 1), Record(y, 3)>>]
               : x \in BucketTexts, y \in KeyTexts }

InitBucket ==
    \E d \in BucketDocuments, rd \in {NoReadme, Marked} :
        \/ ReportStart([t \in {"gpt2"} |-> d], rd)
        \/ ReportStart([t \in {"gpt2", "bert"} |->
                           IF t = "gpt2" THEN d
                           ELSE [l \in {"Blocktail"} |-> <<Record(a__b, 2)>>]], rd)

SpecBucket == InitBucket /\ [][NextReport]_vars

---------------------------------------------------------------------------
(* Claims about analysis-compiler.py.                                      *)

\* generate_summary has returned.
Rendered == pc \in {"summarized", "saved", "done"}

TokenSum(data, label) == Sum(NumTokens(Get(data, label)))
NumRecords(data, label) == Len(Get(data, label))
HasRecords(data, label) == Get(data, label) # <<>>

\* The cell shows the number num / den to one decimal.
Shows(cell, num, den) ==
    /\ cell.text = "number"
    /\ 2 * Abs(cell.tenths * den - 10 * num) <= den

\* The cell shows (avg(label) - avg(Blocktail)) / avg(label) * 100 when
\* avg(label) > 0, and "N/A" when it is zero or the convention is absent.
DeltaCell(cell, data, label) ==
    LET as == TokenSum(data, label)
        an == NumRecords(data, label)
        bs == TokenSum(data, "Blocktail")
        bn == NumRecords(data, "Blocktail")
    IN  IF an > 0 /\ as > 0
        THEN Shows(cell, 100 * (as * bn - bs * an), as * bn)
        ELSE cell = NA

\* C6: in every comparison row the percentage delta of a baseline A
\* (Traditional, BEM) against Blocktail is (avg(A) - avg(Blocktail)) / avg(A)
\* * 100 when avg(A) > 0, and "N/A" when avg(A) = 0 or A is absent.
C6_PercentDelta ==
    Rendered =>
        \A n \in 1..Len(summary.rows) :
            LET row == summary.rows[n]
                data == tokenizer_results[row.Tokenizer]
            IN  /\ DeltaCell(row.vsTrad, data, "Traditional")
                /\ DeltaCell(row.vsBEM, data, "BEM")

RowsOf(t) == SelectSeq(summary.rows, LAMBDA row : row.Tokenizer = t)

\* C7: a tokenizer with Traditional and Blocktail records and no BEM
\* convention has one comparison row; its BEM average and BEM delta show
\* "N/A"; its Traditional delta is the one of a tokenizer with the same
\* Traditional and Blocktail records and a BEM convention, and is
\* (avg(T) - avg(B)) / avg(T) * 100 when avg(T) > 0.
C7_RowWithoutBEM ==
    Rendered =>
        \A t \in DOMAIN tokenizer_results :
            LET data == tokenizer_results[t]
            IN  ( /\ "BEM" \notin DOMAIN data
                  /\ HasRecords(data, "Traditional")
                  /\ HasRecords(data, "Blocktail") ) =>
                    /\ Len(RowsOf(t)) = 1
                    /\ RowsOf(t)[1].BEMAvg = NA
                    /\ RowsOf(t)[1].vsBEM = NA
                    /\ TokenSum(data, "Traditional") > 0 =>
                          DeltaCell(RowsOf(t)[1].vsTrad, data, "Traditional")
                    /\ \A u \in DOMAIN tokenizer_results :
                          ( /\ "BEM" \in DOMAIN tokenizer_results[u]
                            /\ Get(tokenizer_results[u], "Traditional") = Get(data, "Traditional")
                            /\ Get(tokenizer_results[u], "Blocktail") = Get(data, "Blocktail") ) =>
                              /\ Len(RowsOf(u)) = 1
                              /\ RowsOf(u)[1].vsTrad = RowsOf(t)[1].vsTrad

\* Two tokenizers with the same Traditional and Blocktail records, one with
\* and one without a BEM convention, and a delta that is not zero.
C7_Witness ==
    /\ Rendered
    /\ \E t, u \in DOMAIN tokenizer_results :
          /\ "BEM" \notin DOMAIN tokenizer_results[t]
          /\ "BEM" \in DOMAIN tokenizer_results[u]
          /\ HasRecords(tokenizer_results[u], "BEM")
          /\ HasRecords(tokenizer_results[t], "Traditional")
          /\ HasRecords(tokenizer_results[t], "Blocktail")
          /\ Get(tokenizer_results[u], "Traditional") = Get(tokenizer_results[t], "Traditional")
          /\ Get(tokenizer_results[u], "Blocktail") = Get(tokenizer_results[t], "Blocktail")
          /\ Len(RowsOf(t)) = 1
          /\ RowsOf(t)[1].vsTrad.tenths = 500

\* C8: the comparison table has a row for a tokenizer exactly when its
\* Traditional and its Blocktail convention both have a record (one row each,
\* in iteration order), and no row shows the average of an absent convention
\* as a number.
C8_RowsOnlyForCompleteData ==
    Rendered =>
        /\ [n \in 1..Len(summary.rows) |-> summary.rows[n].Tokenizer]
             = SelectSeq(order, LAMBDA t : /\ HasRecords(tokenizer_results[t], "Traditional")
                                           /\ HasRecords(tokenizer_results[t], "Blocktail"))
        /\ \A n \in 1..Len(summary.rows) :
              LET row == summary.rows[n]
                  data == tokenizer_results[row.Tokenizer]
              IN  /\ {"Traditional", "Blocktail"} \subseteq DOMAIN data
                  /\ row.BlocktailAvg.text = "number"
                  /\ row.TraditionalAvg.text = "number"
                  /\ "BEM" \notin DOMAIN data => row.BEMAvg = NA

\* Two tokenizers, one without a Blocktail convention and one whose
\* Traditional convention has no records, and a third case with a row.
C8_Witness ==
    /\ Rendered
    /\ Len(order) = 2
    /\ Len(summary.rows) = 1
    /\ \E t \in DOMAIN tokenizer_results :
          /\ "Blocktail" \notin DOMAIN tokenizer_results[t]
          /\ HasRecords(tokenizer_results[t], "Traditional")
          /\ RowsOf(t) = <<>>

\* The baselines of a tokenizer whose average is positive.
PositiveBaselines(data) ==
    {l \in {"Traditional", "BEM"} : TokenSum(data, l) > 0}

\* avg(label) - avg(Blocktail), an absent or empty Blocktail counting as 0
Delta(data, label) ==
    LET bn == IF HasRecords(data, "Blocktail") THEN NumRecords(data, "Blocktail") ELSE 1
    IN  << TokenSum(data, label) * bn - TokenSum(data, "Blocktail") * NumRecords(data, label),
           NumRecords(data, label) * bn >>

RatEq(a, b) == a[1] * b[2] = b[1] * a[2]

\* C9 as stated: the averaged deltas are one per tokenizer, over the
\* tokenizers with a baseline of positive average.
C9_OneDeltaPerTokenizer ==
    Rendered =>
        Len(all_savings) =
            Cardinality({t \in DOMAIN tokenizer_results :
                            PositiveBaselines(tokenizer_results[t]) # {}})

\* The deltas of the tokenizers ord[n..], Traditional before BEM.
RECURSIVE ExpectedSavings(_, _)
ExpectedSavings(ord, n) ==
    IF n > Len(ord) THEN <<>>
    ELSE LET data == tokenizer_results[ord[n]]
             pos == PositiveBaselines(data)
         IN  (IF "Traditional" \in pos THEN <<Delta(data, "Traditional")>> ELSE <<>>)
             \o (IF "BEM" \in pos THEN <<Delta(data, "BEM")>> ELSE <<>>)
             \o ExpectedSavings(ord, n + 1)

\* C9 as amended: the "average token reduction per component" is the mean of
\* the deltas (baseline_avg - candidate_avg), one delta per tokenizer and
\* baseline convention (Traditional, BEM) whose average is positive; a
\* baseline of zero average or absent adds nothing, and with no delta at all
\* the report says that there is not enough data.
C9_OneDeltaPerPositiveBaseline ==
    Rendered =>
        LET want == ExpectedSavings(order, 1)
            total == RatSum(want)
        IN  /\ Len(all_savings) = Len(want)
            /\ \A n \in 1..Len(want) : RatEq(all_savings[n], want[n])
            /\ IF want = <<>>
               THEN summary.impact = <<Line("Not enough data to compute practical impact", 0)>>
               ELSE /\ summary.impact[1].line = "Average token reduction per component"
                    /\ 2 * Abs(summary.impact[1].value * total[2] * Len(want) - 10 * total[1])
                          <= total[2] * Len(want)

\* A tokenizer with two positive baselines beside one whose only baseline
\* has a zero average: two deltas, one tokenizer.
C9_Witness ==
    /\ Rendered
    /\ Len(order) = 2
    /\ Len(all_savings) = 2
    /\ \E t \in DOMAIN tokenizer_results :
          /\ HasRecords(tokenizer_results[t], "Traditional")
          /\ PositiveBaselines(tokenizer_results[t]) = {}
    /\ summary.impact[1].line = "Average token reduction per component"
    /\ summary.impact[1].value # 0

(* Report splicing, checked under SpecSplice. *)

\* sub stands at position p of str.
Occurs(str, sub, p) ==
    /\ p >= 1
    /\ p + Len(sub) - 1 <= Len(str)
    /\ \A n \in 1..Len(sub) : str[p + n - 1] = sub[n]

\* The text has sub somewhere between positions from and to.
Within(str, sub, from, to) ==
    \E p \in from..to : p + Len(sub) - 1 <= to /\ Occurs(str, sub, p)

\* README.md was A + START + B + END + C, the start marker at position p and
\* the end marker at position q, and is now A + START + report + END + C, the
\* report on lines of its own.
Respliced(old, p, q) ==
    readme.text = SubSeq(old, 1, p - 1) \o START \o NL \o SummaryText(summary) \o NL
                    \o END \o SubSeq(old, q + Len(END), Len(old))

\* C5 as stated: for every way of reading the old README.md as
\* A + START + B + END + C with no start marker in A, the new one is
\* A + START + report + END + C.
C5_SpliceKeepsOutside ==
    (pc = "done" /\ before.readme.exists) =>
        LET old == before.readme.text
        IN  \A p \in 1..Len(old) :
                (Occurs(old, START, p) /\ ~Within(old, START, 1, p - 1)) =>
                    \A q \in p + Len(START)..Len(old) :
                        Occurs(old, END, q) => Respliced(old, p, q)

\* C5 as amended: the same, for the readings in which B holds no end marker.
C5_SpliceKeepsOutsideFirstEnd ==
    (pc = "done" /\ before.readme.exists) =>
        LET old == before.readme.text
        IN  \A p \in 1..Len(old) :
                (Occurs(old, START, p) /\ ~Within(old, START, 1, p - 1)) =>
                    \A q \in p + Len(START)..Len(old) :
                        ( /\ Occurs(old, END, q)
                          /\ ~Within(old, END, p + Len(START), q - 1) ) =>
                            Respliced(old, p, q)

\* A README.md with text before the start marker, an earlier content between
\* the markers and text after the end marker, respliced.
C5_Witness ==
    /\ pc = "done"
    /\ before.readme.exists
    /\ LET old == before.readme.text
       IN  \E p, q \in 1..Len(old) :
              /\ Occurs(old, START, p)
              /\ Occurs(old, END, q)
              /\ p > 1
              /\ q > p + Len(START)
              /\ q + Len(END) <= Len(old)
              /\ ~Within(old, START, 1, p - 1)
              /\ ~Within(old, END, p + Len(START), q - 1)
              /\ Respliced(old, p, q)
              /\ summary.rows # <<>>

(* Complexity bucketing, checked under SpecBucket. *)

\* The dashes that stand directly before position p of str.
RECURSIVE DashesBefore(_, _)
DashesBefore(str, p) ==
    IF p > 1 /\ str[p - 1] = "-" THEN 1 + DashesBefore(str, p - 1) ELSE 0

\* count('--') + count(' -'): the pairs of dashes, paired from the start of
\* each run of dashes, and the places where a dash follows a space.
MarkerCount(str) ==
    Cardinality({p \in 1..Len(str) - 1 :
                    str[p] = "-" /\ str[p + 1] = "-" /\ DashesBefore(str, p) % 2 = 0})
      + Cardinality({p \in 1..Len(str) - 1 : str[p] = " " /\ str[p + 1] = "-"})

BlocktailOf(t) == Get(tokenizer_results[t], "Blocktail")

\* The Blocktail records of tokenizer t with m markers.
Bucket(t, m) == SelectSeq(BlocktailOf(t), LAMBDA e : MarkerCount(e.input) = m)

\* The averages of bucket m, one per tokenizer that has such a record.
BucketAverages(m) ==
    Concat([n \in 1..Len(order) |->
              IF Bucket(order[n], m) # <<>>
              THEN << <<Sum(NumTokens(Bucket(order[n], m))), Len(Bucket(order[n], m))>> >>
              ELSE <<>>])

InputsOf(t) == [n \in 1..Len(BlocktailOf(t)) |-> BlocktailOf(t)[n].input]

\* C10 as stated: the bucket of a record is its marker count, records of
\* equal marker count are averaged together, and "a--b" and "a -b -c" have 2
\* markers each: a file with just these two Blocktail records has the one
\* bucket 2, holding the average of both.
C10_BucketsByMarkersSameBucket ==
    Rendered =>
        /\ \A n \in 1..Len(summary.markers) :
              BucketAverages(summary.markers[n].markers) # <<>>
        /\ (order = <<"gpt2">> /\ InputsOf("gpt2") = <<a__b, a_b_c>>) =>
              /\ Len(summary.markers) = 1
              /\ summary.markers[1].markers = 2
              /\ summary.markers[1].mean
                    = 5 * Sum(NumTokens(BlocktailOf("gpt2")))

\* C10 as amended: the bucket of a record is its marker count, count('--') +
\* count(' -') of the input text; the report has one line per marker count
\* that occurs, in increasing order, showing the mean over the tokenizers of
\* the average num_tokens of their records with that marker count; "a--b" has
\* 1 marker and "a -b -c" has 2, so they fall into different buckets and are
\* not averaged together.
C10_BucketsByMarkers ==
    Rendered =>
        /\ {summary.markers[n].markers : n \in 1..Len(summary.markers)}
              = UNION {{MarkerCount(e.input) : e \in Range(BlocktailOf(t))}
                       : t \in DOMAIN tokenizer_results}
        /\ \A n \in 1..Len(summary.markers) - 1 :
              summary.markers[n].markers < summary.markers[n + 1].markers
        /\ \A n \in 1..Len(summary.markers) :
              LET avgs == BucketAverages(summary.markers[n].markers)
                  total == RatSum(avgs)
              IN  /\ avgs # <<>>
                  /\ 2 * Abs(summary.markers[n].mean * total[2] * Len(avgs) - 10 * total[1])
                        <= total[2] * Len(avgs)
        /\ (order = <<"gpt2">> /\ InputsOf("gpt2") = <<a__b, a_b_c>>) =>
              /\ Len(summary.markers) = 2
              /\ summary.markers[1].markers = 1
              /\ summary.markers[1].mean = 10 * BlocktailOf("gpt2")[1].num_tokens
              /\ summary.markers[2].markers = 2
              /\ summary.markers[2].mean = 10 * BlocktailOf("gpt2")[2].num_tokens

\* A file with the two Blocktail records "a--b" (1 token) and "a -b -c" (3
\* tokens), summarised.
C10_Witness ==
    /\ Rendered
    /\ order = <<"gpt2">>
    /\ InputsOf("gpt2") = <<a__b, a_b_c>>
    /\ Len(summary.markers) = 2

\* Two records of one file in the same bucket, averaged: "a --b" (1 token)
\* and "a -b -c" (3 tokens) have two markers each.
C10_SameBucketReached ==
    /\ Rendered
    /\ order = <<"gpt2">>
    /\ InputsOf("gpt2") = << <<"a", " ", "-", "-", "b">>, a_b_c >>
    /\ summary.markers = << [markers |-> 2, mean |-> 20, std |-> 0] >>

---------------------------------------------------------------------------
(* Claims about tokenize_tests.py, checked under Spec.                     *)

Printed(m, n) == \E q \in 1..Len(stdout) : stdout[q].msg = m /\ stdout[q].name = n

IsBatch == Len(args) = 1 /\ args[1] = "all"

\* process_tokenizer has returned for tokenizer t in this run.
Returned(t) ==
    IF IsBatch
    THEN t \in Range(success) \cup Range(failed)
    ELSE Len(args) = 1 /\ args[1] = t /\ pc = "done" /\ exit_status = 0

LoadFailed(t) == Printed("Error initializing or processing tokenizer", t)

\* The file of tokenizer t differs from what it was when the run started.
Written(t) ==
    /\ t \in DOMAIN results_dir
    /\ t \in DOMAIN before.results => results_dir[t] # before.results[t]

Untouched(t) ==
    /\ t \in DOMAIN results_dir <=> t \in DOMAIN before.results
    /\ t \in DOMAIN results_dir => results_dir[t] = before.results[t]

CorpusLabels == {test_cases[n].label : n \in 1..Len(test_cases)}

ExamplesOf(l) ==
    test_cases[CHOOSE n \in 1..Len(test_cases) : test_cases[n].label = l].examples

Inputs(records) == [n \in 1..Len(records) |-> records[n].input]

Succeeding(examples) == SelectSeq(examples, LAMBDA e : e \notin raises)

\* C1: when tokenizing a sample raises, that sample alone is left out: once
\* process_tokenizer has returned for a tokenizer that loaded, its result file
\* holds one key per convention of the corpus and under each key the records
\* of exactly the samples that did not raise, in corpus order; the file is
\* written ("Results saved") and the run counts as a success.
C1_FailedSamplesOmitted ==
    \A t \in TokenizerIds :
        (Returned(t) /\ ~LoadFailed(t)) =>
            /\ Written(t)
            /\ Printed("Results saved", t)
            /\ DOMAIN results_dir[t] = CorpusLabels
            /\ \A l \in CorpusLabels :
                   Inputs(results_dir[t][l]) = Succeeding(ExamplesOf(l))
            /\ IsBatch => t \in Range(success)

\* A run in which one sample of a convention raised and another one, in the
\* same convention, was recorded.
C1_Witness ==
    /\ pc = "done"
    /\ \E t \in TokenizerIds :
         /\ Returned(t)
         /\ Printed("Error processing example", t)
         /\ \E l \in CorpusLabels :
              /\ Len(ExamplesOf(l)) = 2
              /\ Len(results_dir[t][l]) = 1

ProcessingOrder ==
    LET lines == SelectSeq(stdout, LAMBDA m : m.msg = "Processing tokenizer")
    IN  [n \in 1..Len(lines) |-> lines[n].name]

\* C2: in a batch run ("all") a tokenizer that cannot be loaded is skipped and
\* the batch goes on: the tokenizers are attempted once each in configuration
\* order, a failed tokenizer's result file is left as it was, and at the end
\* every tokenizer is in exactly one of the two printed lists, "Successfully
\* processed" exactly when its result file was written.
C2_BatchContinues ==
    IsBatch =>
        /\ \A n \in 1..Len(ProcessingOrder) : ProcessingOrder[n] = Tokenizers[n].id
        /\ \A t \in Range(failed) : Untouched(t)
        /\ (pc = "done" /\ exit_status = 0) =>
              /\ Len(ProcessingOrder) = Len(Tokenizers)
              /\ Len(success) + Len(failed) = Len(Tokenizers)
              /\ \A t \in TokenizerIds :
                    /\ (t \in Range(success)) # (t \in Range(failed))
                    /\ t \in Range(success) <=> Written(t)
              /\ stdout[Len(stdout) - 1] = Msg("Successfully processed", "", success)
              /\ stdout[Len(stdout)] = Msg("Failed", "", failed)

\* A finished batch in which the first tokenizer could not be loaded, over a
\* stale result file, and a later one was processed.
C2_Witness ==
    /\ IsBatch
    /\ pc = "done"
    /\ failed # <<>>
    /\ failed[1] = Tokenizers[1].id
    /\ Tokenizers[1].id \in DOMAIN before.results
    /\ success # <<>>

\* C3 as stated: with data/test_cases.json missing at the start, the run has
\* aborted with a nonzero exit status and has created or written no file and
\* loaded no tokenizer.
C3_MissingConfigurationAborts ==
    (Len(args) = 1 /\ before.cases = Missing /\ pc # "main") =>
        /\ pc = "done"
        /\ exit_status # 0
        /\ cases_file = Missing
        /\ results_dir = before.results
        /\ tokenizer = "none"

\* C3 as amended: with data/test_cases.json missing at the start, the run
\* does not abort: it creates the file with the built-in sample corpus (the
\* conventions "traditional" and "blocktail", three examples each), loads that
\* corpus and ends with exit status 0. The run aborts with exit status 1,
\* before any tokenizer is loaded or any result file written, exactly when the
\* file exists and cannot be parsed.
C3_MissingConfigurationIsCreated ==
    /\ (Len(args) = 1 /\ before.cases = Missing /\ pc # "main") =>
          /\ cases_file.state = "json"
          /\ Len(cases_file.data) = 2
          /\ cases_file.data[1].label = "traditional"
          /\ cases_file.data[2].label = "blocktail"
          /\ \A n \in 1..2 : Len(cases_file.data[n].examples) = 3
          /\ Printed("Created sample test cases", "")
          /\ pc # "load_cases" => test_cases = cases_file.data
          /\ pc = "done" => exit_status = 0
    /\ (Len(args) = 1 /\ pc = "done") =>
          /\ exit_status = 1 <=> before.cases = Garbage
          /\ exit_status = 1 =>
                /\ tokenizer = "none"
                /\ results_dir = before.results
                /\ cases_file = before.cases
                /\ ProcessingOrder = <<>>

\* A finished run that started without data/test_cases.json and tokenized the
\* sample corpus.
C3_Witness ==
    /\ before.cases = Missing
    /\ pc = "done"
    /\ \E t \in TokenizerIds :
         /\ Written(t)
         /\ "blocktail" \in DOMAIN results_dir[t]
         /\ Len(results_dir[t]["blocktail"]) = 3

AllRecords(doc) == UNION {Range(doc[l]) : l \in DOMAIN doc}

\* C4: every record of every result file, and of the document being built,
\* has num_tokens equal to the length of its tokens, whatever the tokenizer
\* family and whichever samples raised.
C4_NumTokensIsLength ==
    /\ \A t \in DOMAIN results_dir :
          \A r \in AllRecords(results_dir[t]) : r.num_tokens = Len(r.tokens)
    /\ \A r \in AllRecords(results) : r.num_tokens = Len(r.tokens)

\* A finished batch that wrote records of several tokens for a tiktoken, a
\* transformers and a sentencepiece tokenizer, with a sample that raised.
C4_Witness ==
    /\ IsBatch
    /\ pc = "done"
    /\ \E q \in 1..Len(stdout) : stdout[q].msg = "Error processing example"
    /\ \A ty \in {"tiktoken", "transformers", "sentencepiece"} :
          \E t \in TokenizerIds :
              /\ Config(t).type = ty
              /\ Written(t)
              /\ \E r \in AllRecords(results_dir[t]) : r.num_tokens > 1

=============================================================================
